---------------------------- MODULE Spec2Model ----------------------------
(***************************************************************************)
(* Model of the BiliBiliRec webhook notifier (src/src/main.rs).            *)
(*                                                                         *)
(* main parses --roomid-filter into the process-wide ROOMID_FILTER and     *)
(* starts the server; handle_request routes, reads and decodes the body,   *)
(* applies the filter and calls the desktop notification collaborator.     *)
(*                                                                         *)
(* Text that the program parses or formats is a sequence of one-character  *)
(* strings.  Machine integers are little-endian sequences of 16-bit limbs  *)
(* (u32: 2 limbs, u64/i64: 4 limbs, i64 in two's complement), so that the  *)
(* 32- and 64-bit widths of the program are kept exactly.                  *)
(***************************************************************************)
EXTENDS Integers, Sequences, FiniteSets, TLC

(***************************************************************************)
(* Machine integers                                                        *)
(***************************************************************************)
\* radix of one limb: 2^16
Base == 65536

\* limbs of a u32 (Vec<u32> element, `as u32`, u32::from_str)
U32Limbs == 2

\* limbs of a u64 / i64 (EventData.room_id, serde_json's significand)
I64Limbs == 4

None == [some |-> FALSE]

Some(x) == [some |-> TRUE, v |-> x]

Zero(n) == [i \in 1..n |-> 0]

IsZero(x) == \A i \in 1..Len(x) : x[i] = 0

\* x * m + a over the limbs of x; carry is what does not fit the width of x
RECURSIVE MulAdd(_, _, _)
MulAdd(x, m, a) ==
    IF x = <<>> THEN [v |-> <<>>, carry |-> a]
    ELSE LET t == Head(x) * m + a
             r == MulAdd(Tail(x), m, t \div Base)
         IN  [v |-> <<t % Base>> \o r.v, carry |-> r.carry]

\* checked_mul: None on overflow of the width of x
CheckedMul(x, m) ==
    LET r == MulAdd(x, m, 0) IN IF r.carry = 0 THEN Some(r.v) ELSE None

\* checked_add of a small operand: None on overflow of the width of x
CheckedAdd(x, a) ==
    LET r == MulAdd(x, 1, a) IN IF r.carry = 0 THEN Some(r.v) ELSE None

\* quotient and remainder of x by a small divisor, from the top limb down
RECURSIVE DivRem(_, _, _)
DivRem(x, d, rem) ==
    IF x = <<>> THEN [q |-> <<>>, r |-> rem]
    ELSE LET n    == Len(x)
             t    == rem * Base + x[n]
             rest == DivRem(SubSeq(x, 1, n - 1), d, t % d)
         IN  [q |-> rest.q \o <<t \div d>>, r |-> rest.r]

\* two's complement negation within the width of x (i64::wrapping_neg)
WrappingNeg(x) == MulAdd([i \in 1..Len(x) |-> Base - 1 - x[i]], 1, 1).v

\* sign bit of a two's complement value
IsNegative(x) == x[Len(x)] >= Base \div 2

(***************************************************************************)
(* Text                                                                    *)
(***************************************************************************)
DigitChars == <<"0", "1", "2", "3", "4", "5", "6", "7", "8", "9">>

IsDigit(c) == \E i \in 1..10 : DigitChars[i] = c

\* char::to_digit(10) of a decimal digit
ToDigit(c) == (CHOOSE i \in 1..10 : DigitChars[i] = c) - 1

\* str::split(','): the pieces between the separators, empty pieces included
RECURSIVE SplitFrom(_, _, _)
SplitFrom(s, sep, cur) ==
    IF s = <<>> THEN <<cur>>
    ELSE IF Head(s) = sep THEN <<cur>> \o SplitFrom(Tail(s), sep, <<>>)
    ELSE SplitFrom(Tail(s), sep, Append(cur, Head(s)))

Split(s, sep) == SplitFrom(s, sep, <<>>)

\* [String]::join(sep)
RECURSIVE Join(_, _)
Join(parts, sep) ==
    IF parts = <<>> THEN <<>>
    ELSE IF Len(parts) = 1 THEN parts[1]
    ELSE parts[1] \o sep \o Join(Tail(parts), sep)

\* decimal digits of an unsigned value, most significant first
RECURSIVE Digits(_)
Digits(x) ==
    IF IsZero(x) THEN <<>>
    ELSE LET dr == DivRem(x, 10, 0) IN Append(Digits(dr.q), DigitChars[dr.r + 1])

\* <u32 as Display>::to_string / the unsigned part of <i64 as Display>
UnsignedToString(x) == IF IsZero(x) THEN <<"0">> ELSE Digits(x)

\* <i64 as Display>: a minus sign and the magnitude for a negative value
I64ToString(x) ==
    IF IsNegative(x) THEN <<"-">> \o UnsignedToString(WrappingNeg(x))
    ELSE UnsignedToString(x)

\* s contains sub as a contiguous run of characters
Contains(s, sub) ==
    \E i \in 1..(Len(s) - Len(sub) + 1) : SubSeq(s, i, i + Len(sub) - 1) = sub

(***************************************************************************)
(* u32::from_str (radix 10): an optional '+', then at least one digit,     *)
(* nothing else; the value must fit 32 bits.                               *)
(***************************************************************************)
RECURSIVE U32Accumulate(_, _)
U32Accumulate(acc, s) ==
    IF s = <<>> THEN [ok |-> TRUE, v |-> acc]
    ELSE IF ~IsDigit(Head(s)) THEN [ok |-> FALSE, err |-> "InvalidDigit"]
    ELSE LET m == CheckedMul(acc, 10) IN
         IF ~m.some THEN [ok |-> FALSE, err |-> "PosOverflow"]
         ELSE LET a == CheckedAdd(m.v, ToDigit(Head(s))) IN
              IF ~a.some THEN [ok |-> FALSE, err |-> "PosOverflow"]
              ELSE U32Accumulate(a.v, Tail(s))

U32FromStr(s) ==
    IF s = <<>> THEN [ok |-> FALSE, err |-> "Empty"]
    ELSE IF s \in {<<"+">>, <<"-">>} THEN [ok |-> FALSE, err |-> "InvalidDigit"]
    ELSE U32Accumulate(Zero(U32Limbs), IF Head(s) = "+" THEN Tail(s) ELSE s)


Ok(x) == [ok |-> TRUE, v |-> x]

Err(e) == [ok |-> FALSE, err |-> e]

(***************************************************************************)
(* JSON documents.  A request body is either unreadable, or bytes that are *)
(* not JSON, or a JSON value: a string, a number (kept as its token, which *)
(* the decoder parses), a boolean, null, or an object (a function from its *)
(* keys to values).                                                        *)
(***************************************************************************)
Str(s) == [t |-> "string", s |-> s]

Num(tok) == [t |-> "number", tok |-> tok]

Bool(b) == [t |-> "bool", b |-> b]

Obj(fields) == [t |-> "object", fields |-> fields]

\* what a JSON value holds
ValueOf(j) ==
    CASE j.t = "string" -> j.s
      [] j.t = "number" -> j.tok
      [] j.t = "bool"   -> j.b
      [] j.t = "object" -> j.fields

(***************************************************************************)
(* serde_json's integer parsing as deserialize_i64 uses it: the digits are *)
(* accumulated in a u64; a number that overflows the u64, has a fraction   *)
(* or an exponent, or is negative and below i64::MIN (or is -0), is handed *)
(* to the visitor as a float, which the i64 visitor rejects; a positive    *)
(* number above i64::MAX is rejected by visit_u64.                         *)
(***************************************************************************)
ParseNumber(positive, significand, rest) ==
    IF rest # <<>> /\ Head(rest) \in {".", "e", "E"} THEN [kind |-> "F64"]
    ELSE IF rest # <<>> THEN [kind |-> "InvalidNumber"]
    ELSE IF positive THEN [kind |-> "U64", v |-> significand]
    ELSE LET neg == WrappingNeg(significand) IN
         IF ~IsNegative(neg) THEN [kind |-> "F64"] ELSE [kind |-> "I64", v |-> neg]

RECURSIVE ParseSignificand(_, _, _)
ParseSignificand(positive, significand, s) ==
    IF s # <<>> /\ IsDigit(Head(s))
    THEN LET r == MulAdd(significand, 10, ToDigit(Head(s))) IN
         IF r.carry # 0 THEN [kind |-> "F64"]
         ELSE ParseSignificand(positive, r.v, Tail(s))
    ELSE ParseNumber(positive, significand, s)

ParseInteger(tok) ==
    LET positive == ~(tok # <<>> /\ Head(tok) = "-")
        s        == IF positive THEN tok ELSE Tail(tok)
    IN  IF s = <<>> \/ ~IsDigit(Head(s)) THEN [kind |-> "InvalidNumber"]
        ELSE IF Head(s) = "0"
        THEN IF Len(s) > 1 /\ IsDigit(s[2]) THEN [kind |-> "InvalidNumber"]
             ELSE ParseNumber(positive, Zero(I64Limbs), Tail(s))
        ELSE ParseSignificand(positive, MulAdd(Zero(I64Limbs), 1, ToDigit(Head(s))).v,
                              Tail(s))

\* variant of VisitI64: visit_u64 converts with `as i64`, without the range check
VisitI64Unchecked(n) ==
    IF n.kind \in {"I64", "U64"} THEN Ok(n.v)
    ELSE IF n.kind = "F64" THEN Err("invalid type")
    ELSE Err("invalid number")

\* the i64 visitor: visit_i64, visit_u64 (range-checked), anything else refused
VisitI64(n) ==
    IF n.kind = "I64" THEN Ok(n.v)
    ELSE IF n.kind = "U64"
    THEN IF IsNegative(n.v) THEN Err("invalid value") ELSE Ok(n.v)
    ELSE IF n.kind = "F64" THEN Err("invalid type")
    ELSE Err("invalid number")

(***************************************************************************)
(* The derived Deserialize of Event and EventData: every named field must  *)
(* be present under its wire name with a value of the field's type; keys   *)
(* that name no field are ignored.                                         *)
(***************************************************************************)
Field(o, k, type) ==
    IF k \notin DOMAIN o THEN Err("missing field")
    ELSE IF o[k].t # type THEN Err("invalid type")
    ELSE Ok(ValueOf(o[k]))

FieldI64(o, k) ==
    LET f == Field(o, k, "number") IN
    IF ~f.ok THEN f ELSE VisitI64(ParseInteger(f.v))

\* the first failure of a sequence of field results, in declaration order
FirstErr(rs) == rs[CHOOSE i \in 1..Len(rs) : ~rs[i].ok /\ \A j \in 1..(i - 1) : rs[j].ok]

AllOk(rs) == \A i \in 1..Len(rs) : rs[i].ok

DeserializeEventData(o) ==
    LET rs == << FieldI64(o, "RoomId"),
                 FieldI64(o, "ShortId"),
                 Field(o, "Name", "string"),
                 Field(o, "Title", "string"),
                 Field(o, "AreaNameParent", "string"),
                 Field(o, "AreaNameChild", "string"),
                 Field(o, "Recording", "bool"),
                 Field(o, "Streaming", "bool"),
                 Field(o, "DanmakuConnected", "bool") >>
    IN  IF ~AllOk(rs) THEN FirstErr(rs)
        ELSE Ok([ room_id           |-> rs[1].v,
                  short_id          |-> rs[2].v,
                  name              |-> rs[3].v,
                  title             |-> rs[4].v,
                  area_name_parent  |-> rs[5].v,
                  area_name_child   |-> rs[6].v,
                  recording         |-> rs[7].v,
                  streaming         |-> rs[8].v,
                  danmaku_connected |-> rs[9].v ])

FieldEventData(o, k) ==
    LET f == Field(o, k, "object") IN
    IF ~f.ok THEN f ELSE DeserializeEventData(f.v)

DeserializeEvent(o) ==
    LET rs == << Field(o, "EventType", "string"),
                 Field(o, "EventTimestamp", "string"),
                 Field(o, "EventId", "string"),
                 FieldEventData(o, "EventData") >>
    IN  IF ~AllOk(rs) THEN FirstErr(rs)
        ELSE Ok([ event_type      |-> rs[1].v,
                  event_timestamp |-> rs[2].v,
                  event_id        |-> rs[3].v,
                  event_data      |-> rs[4].v ])

\* serde_json::from_slice::<Event>
FromSlice(bytes) ==
    IF ~bytes.json THEN Err("syntax")
    ELSE IF bytes.value.t # "object" THEN Err("invalid type")
    ELSE DeserializeEvent(bytes.value.fields)

\* format!("{err:#?}"): the Debug rendering of an error, never empty
DebugFmt(err) ==
    CASE err = "body"           -> "hyper::Error(Body)"
      [] err = "syntax"         -> "Error(Syntax)"
      [] err = "missing field"  -> "Error(MissingField)"
      [] err = "invalid type"   -> "Error(InvalidType)"
      [] err = "invalid value"  -> "Error(InvalidValue)"
      [] err = "invalid number" -> "Error(InvalidNumber)"
      [] err = "dbus"           -> "Dbus(Error)"
      [] OTHER                  -> "Error"

(***************************************************************************)
(* Inputs                                                                  *)
(***************************************************************************)
\* RoomId tokens that are JSON integers within the i64 range: small ones,
\* negative ones, ones of 2^32 or more, and both ends of the range
I64Tokens ==
    { <<"1", "2", "3">>,
      <<"4", "5", "6">>,
      <<"0">>,
      <<"-", "1">>,
      <<"4", "2", "9", "4", "9", "6", "7", "2", "9", "5">>,
      <<"4", "2", "9", "4", "9", "6", "7", "2", "9", "6">>,
      <<"4", "2", "9", "4", "9", "6", "7", "4", "1", "9">>,
      <<"-", "4", "2", "9", "4", "9", "6", "7", "1", "7", "3">>,
      <<"9", "2", "2", "3", "3", "7", "2", "0", "3", "6", "8", "5", "4", "7", "7", "5", "8", "0", "7">>,
      <<"-", "9", "2", "2", "3", "3", "7", "2", "0", "3", "6", "8", "5", "4", "7", "7", "5", "8", "0", "8">> }

\* RoomId tokens that no i64 decodes from: out of range, not an integer,
\* or not a JSON number
BadNumberTokens ==
    { <<"9", "2", "2", "3", "3", "7", "2", "0", "3", "6", "8", "5", "4", "7", "7", "5", "8", "0", "8">>,
      <<"-", "9", "2", "2", "3", "3", "7", "2", "0", "3", "6", "8", "5", "4", "7", "7", "5", "8", "0", "9">>,
      <<"1", "8", "4", "4", "6", "7", "4", "4", "0", "7", "3", "7", "0", "9", "5", "5", "1", "6", "1", "6">>,
      <<"1", ".", "5">>,
      <<"1", "e", "3">>,
      <<"0", "1", "2", "3">>,
      <<"-", "0">>,
      <<"-">> }

Titles ==
    { <<"H", "e", "l", "l", "o">>,
      <<"7">> }

EventTypes == {"StreamStarted", "StreamEnded", "SessionStarted"}

EventDataDoc(roomTok, title) ==
    [ RoomId           |-> Num(roomTok),
      ShortId          |-> Num(<<"1">>),
      Name             |-> Str("n"),
      Title            |-> Str(title),
      AreaNameParent   |-> Str("A"),
      AreaNameChild    |-> Str("B"),
      Recording        |-> Bool(FALSE),
      Streaming        |-> Bool(TRUE),
      DanmakuConnected |-> Bool(TRUE) ]

EventDoc(type, data) ==
    [ EventType      |-> Str(type),
      EventTimestamp |-> Str("t"),
      EventId        |-> Str("1"),
      EventData      |-> Obj(data) ]

Without(f, k) == [x \in DOMAIN f \ {k} |-> f[x]]

With(f, k, val) == [x \in DOMAIN f \cup {k} |-> IF x = k THEN val ELSE f[x]]

Bytes(doc) == [read |-> "ok", bytes |-> [json |-> TRUE, value |-> Obj(doc)]]

NotJson(text) == [read |-> "ok", bytes |-> [json |-> FALSE, text |-> text]]

\* the body stream fails before its end
Unreadable == [read |-> "err"]

\* bodies that are a JSON Event with every field present and well-typed;
\* one of them carries keys that name no field
WellFormedBodies ==
    { Bytes(EventDoc(type, EventDataDoc(tok, title))) :
        type \in EventTypes, tok \in I64Tokens, title \in Titles }
    \cup
    { Bytes(With(EventDoc(type, With(EventDataDoc(<<"1", "2", "3">>, <<"7">>), "Extra", Num(<<"1">>))),
                 "Unknown", Str("x"))) : type \in EventTypes }

SampleData == EventDataDoc(<<"1", "2", "3">>, <<"H", "e", "l", "l", "o">>)

\* bodies that do not decode as an Event: not JSON (empty or garbage), a
\* JSON value that is no object, a missing field, a field of the wrong type
UndecodableBodies ==
    { NotJson(""), NotJson("{\"EventType\":"),
      [read |-> "ok", bytes |-> [json |-> TRUE, value |-> Str("StreamStarted")]] }
    \cup { Bytes(EventDoc("StreamStarted", EventDataDoc(tok, <<"7">>))) : tok \in BadNumberTokens }
    \cup { Bytes(Without(EventDoc("StreamStarted", SampleData), k)) :
             k \in {"EventType", "EventId", "EventData"} }
    \cup { Bytes(EventDoc("StreamStarted", Without(SampleData, k))) :
             k \in {"RoomId", "Title", "Streaming"} }
    \cup { Bytes(EventDoc("StreamStarted", With(SampleData, k, Str("123")))) :
             k \in {"RoomId", "Recording"} }
    \cup { Bytes(With(EventDoc("StreamStarted", SampleData), k, Num(<<"1">>))) :
             k \in {"EventType", "EventData"} }

Bodies == {Unreadable} \cup UndecodableBodies \cup WellFormedBodies

Methods == {"POST", "GET"}

Paths == {"/webhook", "/"}

Requests == [method : Methods, path : Paths, body : Bodies]

\* values of --roomid-filter: plain lists, entries that do not parse (empty,
\* letters, a space, a minus sign, 2^32), a '+' sign, a repeated entry
FilterStrings ==
    { <<"1", "2", "3", ",", "4", "5", "6">>,
      <<"4", "5", "6">>,
      <<>>,
      <<"a", "b", "c">>,
      <<"1", "2", "3", ",", ",", "x">>,
      <<" ", "1", "2", "3">>,
      <<"+", "1", "2", "3">>,
      <<"-", "1">>,
      <<"4", "2", "9", "4", "9", "6", "7", "2", "9", "5">>,
      <<"4", "2", "9", "4", "9", "6", "7", "2", "9", "6">>,
      <<"0", ",", "1", "2", "3", ",", "0">>,
      <<"x", ",">> }

\* default of --port
DefaultPort == 25550

\* the command line: the port and the optional --roomid-filter
CommandLines == [port : {DefaultPort}, roomid_filter : {None} \cup {Some(f) : f \in FilterStrings}]

\* what the notification collaborator answers to show()
NotifyResults == {Ok("handle"), Err("dbus")}

\* the alert sound of the build's platform (unix other than macOS)
SOUND == "message-new-instant"

(***************************************************************************)
(* State                                                                   *)
(***************************************************************************)
\* number of requests the server handles at the same time
NReq == 2

Handlers == 1..NReq

VARIABLES
    commandLine,    \* the process's command line, as argh reads it
    mainPc,         \* where main is: "main" (args parsed) or "serving"
    args,           \* main's Args value
    ROOMID_FILTER,  \* static mut ROOMID_FILTER: Option<Vec<u32>>
    handlers        \* per request being handled: handle_request's locals,
                    \* the notifications it had shown, the result it returned

vars == <<commandLine, mainPc, args, ROOMID_FILTER, handlers>>

\* no request in the slot
Idle ==
    [ pc            |-> "idle",
      req           |-> None,
      body          |-> None,
      event         |-> None,
      filterChecked |-> FALSE,
      shown         |-> <<>>,
      resp          |-> <<>> ]

\* argh::from_env
FromEnv(cl) == [port |-> cl.port, roomid_filter |-> cl.roomid_filter]

InitWith(cls) ==
    /\ commandLine \in cls
    /\ mainPc = "main"
    /\ args = FromEnv(commandLine)
    /\ ROOMID_FILTER = None
    /\ handlers = [r \in Handlers |-> Idle]

(***************************************************************************)
(* main                                                                    *)
(***************************************************************************)
\* it.split(',').filter_map(|it| u32::from_str(it).ok()).collect()
RECURSIVE FilterMapU32(_)
FilterMapU32(entries) ==
    IF entries = <<>> THEN <<>>
    ELSE LET p == U32FromStr(Head(entries)) IN
         (IF p.ok THEN <<p.v>> ELSE <<>>) \o FilterMapU32(Tail(entries))

\* variant of RoomIdFilterOf: a list with no parsed entry counts as no filter
RoomIdFilterOfNonEmpty(a) ==
    IF a.roomid_filter.some /\ FilterMapU32(Split(a.roomid_filter.v, ",")) # <<>>
    THEN Some(FilterMapU32(Split(a.roomid_filter.v, ",")))
    ELSE None

\* args.roomid_filter.as_ref().map(...)
RoomIdFilterOf(a) ==
    IF a.roomid_filter.some
    THEN Some(FilterMapU32(Split(a.roomid_filter.v, ",")))
    ELSE None

\* it.iter().map(|it| it.to_string()).collect::<Vec<_>>().join(", ")
FilterToString(vec) ==
    Join([i \in 1..Len(vec) |-> UnsignedToString(vec[i])], <<",", " ">>)

\* main, from the parsed arguments to the started server
Main ==
    /\ mainPc = "main"
    /\ LET roomid_filter == RoomIdFilterOf(args) IN
       IF roomid_filter.some
       THEN /\ args' = [args EXCEPT !.roomid_filter = Some(FilterToString(roomid_filter.v))]
            /\ ROOMID_FILTER' = roomid_filter
       ELSE UNCHANGED <<args, ROOMID_FILTER>>
    /\ mainPc' = "serving"
    /\ UNCHANGED <<commandLine, handlers>>

(***************************************************************************)
(* handle_request                                                          *)
(***************************************************************************)
\* Response::new(Body::empty())
Success == Ok([status |-> 200, body |-> ""])

NotFound == Ok([status |-> 404, body |-> ""])

ServerErr(msg) == Ok([status |-> 500, body |-> msg])

\* variant of Routed: the path is not checked
RoutedMethodOnly(req) == req.method = "POST"

\* the method and path checks: TRUE when the request goes on to the decoder
Routed(req) == req.method = "POST" /\ req.path = "/webhook"

\* variant of IsStreamStarted: every event but the end of a stream
IsStreamStartedLoose(event) == event.event_type # "StreamEnded"

IsStreamStarted(event) == event.event_type = "StreamStarted"

\* variant of AsU32: a saturating conversion (0 below the range, u32::MAX above)
AsU32Saturating(x) ==
    IF IsNegative(x) THEN Zero(U32Limbs)
    ELSE IF ~IsZero(SubSeq(x, U32Limbs + 1, Len(x))) THEN [i \in 1..U32Limbs |-> Base - 1]
    ELSE SubSeq(x, 1, U32Limbs)

\* `as u32` of an i64: the low 32 bits
AsU32(x) == SubSeq(x, 1, U32Limbs)

\* Vec::contains
VecContains(vec, x) == \E i \in 1..Len(vec) : vec[i] = x

\* the filter test: a filter is set and does not hold the narrowed room_id
Suppressed(filter, event) ==
    filter.some /\ ~VecContains(filter.v, AsU32(event.event_data.room_id))

\* variant of NotificationBody: short_id is formatted in place of room_id
NotificationBodyShortId(event) ==
    <<"R", "o", "o", "m", " ">> \o I64ToString(event.event_data.short_id)
    \o <<" ", "i", "s", " ", "s", "t", "r", "e", "a", "m", "i", "n", "g", ".", "\n", "\n">>
    \o event.event_data.title

\* format!("Room {room} is streaming.\n\n{title}", ...)
NotificationBody(event) ==
    <<"R", "o", "o", "m", " ">> \o I64ToString(event.event_data.room_id)
    \o <<" ", "i", "s", " ", "s", "t", "r", "e", "a", "m", "i", "n", "g", ".", "\n", "\n">>
    \o event.event_data.title

\* what notify hands to the collaborator
Notification(event) ==
    [summary |-> "Live started!", body |-> NotificationBody(event), sound |-> SOUND]

\* variant of NotifyResponse: the collaborator's result is dropped
NotifyResponseIgnoring(result) == Success

\* the handler's answer to notify's result
NotifyResponse(result) ==
    IF ~result.ok THEN ServerErr(DebugFmt(result.err)) ELSE Success

Respond(r, response) ==
    handlers' = [handlers EXCEPT ![r].pc = "done", ![r].resp = Append(@, response)]

\* the server hands a request to handle_request
Receive(r, req) ==
    /\ mainPc = "serving"
    /\ handlers[r].pc \in {"idle", "done"}
    /\ handlers' = [handlers EXCEPT ![r] = [Idle EXCEPT !.pc = "route", !.req = Some(req)]]
    /\ UNCHANGED <<commandLine, mainPc, args, ROOMID_FILTER>>

Route(r) ==
    /\ handlers[r].pc = "route"
    /\ IF Routed(handlers[r].req.v)
       THEN handlers' = [handlers EXCEPT ![r].pc = "read"]
       ELSE Respond(r, NotFound)
    /\ UNCHANGED <<commandLine, mainPc, args, ROOMID_FILTER>>

\* hyper::body::to_bytes(req.into_body()).await
ReadBody(r) ==
    /\ handlers[r].pc = "read"
    /\ LET body == handlers[r].req.v.body IN
       IF body.read = "ok"
       THEN handlers' = [handlers EXCEPT ![r].pc = "decode", ![r].body = Some(body.bytes)]
       ELSE Respond(r, ServerErr(DebugFmt("body")))
    /\ UNCHANGED <<commandLine, mainPc, args, ROOMID_FILTER>>

Decode(r) ==
    /\ handlers[r].pc = "decode"
    /\ LET event == FromSlice(handlers[r].body.v) IN
       IF event.ok
       THEN handlers' = [handlers EXCEPT ![r].pc = "dispatch", ![r].event = Some(event.v)]
       ELSE Respond(r, ServerErr(DebugFmt(event.err)))
    /\ UNCHANGED <<commandLine, mainPc, args, ROOMID_FILTER>>

\* variant of Dispatch: a room that passes the filter is taken out of it
DispatchConsuming(r) ==
    /\ handlers[r].pc = "dispatch"
    /\ LET event == handlers[r].event.v
           room  == SubSeq(event.event_data.room_id, 1, U32Limbs)
       IN
       IF event.event_type = "StreamStarted"
       THEN IF ROOMID_FILTER.some /\ ~(\E i \in 1..Len(ROOMID_FILTER.v) : ROOMID_FILTER.v[i] = room)
            THEN /\ handlers' = [handlers EXCEPT ![r].pc = "done",
                                                 ![r].filterChecked = TRUE,
                                                 ![r].resp = Append(@, Ok([status |-> 200, body |-> ""]))]
                 /\ UNCHANGED ROOMID_FILTER
            ELSE /\ handlers' = [handlers EXCEPT ![r].pc = "notify",
                                                 ![r].filterChecked = TRUE]
                 /\ ROOMID_FILTER' =
                      IF ROOMID_FILTER.some
                      THEN [some |-> TRUE, v |-> SelectSeq(ROOMID_FILTER.v, LAMBDA x : x # room)]
                      ELSE ROOMID_FILTER
       ELSE /\ handlers' = [handlers EXCEPT ![r].pc = "done",
                                            ![r].resp = Append(@, Ok([status |-> 200, body |-> ""]))]
            /\ UNCHANGED ROOMID_FILTER
    /\ UNCHANGED <<commandLine, mainPc, args>>

\* the event type test and, for a stream start, the filter test
Dispatch(r) ==
    /\ handlers[r].pc = "dispatch"
    /\ LET event == handlers[r].event.v IN
       IF IsStreamStarted(event)
       THEN IF Suppressed(ROOMID_FILTER, event)
            THEN handlers' = [handlers EXCEPT ![r].pc = "done",
                                              ![r].filterChecked = TRUE,
                                              ![r].resp = Append(@, Success)]
            ELSE handlers' = [handlers EXCEPT ![r].pc = "notify",
                                              ![r].filterChecked = TRUE]
       ELSE Respond(r, Success)
    /\ UNCHANGED <<commandLine, mainPc, args, ROOMID_FILTER>>

\* notify(event) and the mapping of its result
Notify(r) ==
    /\ handlers[r].pc = "notify"
    /\ \E result \in NotifyResults :
         handlers' = [handlers EXCEPT
             ![r].pc    = "done",
             ![r].shown = Append(@, [call |-> Notification(handlers[r].event.v),
                                     result |-> result]),
             ![r].resp  = Append(@, NotifyResponse(result))]
    /\ UNCHANGED <<commandLine, mainPc, args, ROOMID_FILTER>>

(***************************************************************************)
(* Specifications                                                          *)
(***************************************************************************)
\* one request at a time, every request and every command line of the inputs
Init == InitWith(CommandLines)

Next ==
    \/ Main
    \/ \E req \in Requests : Receive(1, req)
    \/ Route(1)
    \/ ReadBody(1)
    \/ Decode(1)
    \/ Dispatch(1)
    \/ Notify(1)

Spec == Init /\ [][Next]_vars

\* requests handled concurrently: one request of each outcome
ConcBodies ==
    { Unreadable,
      NotJson(""),
      Bytes(EventDoc("StreamEnded", EventDataDoc(<<"1", "2", "3">>, <<"7">>))),
      Bytes(EventDoc("StreamStarted", EventDataDoc(<<"1", "2", "3">>, <<"7">>))),
      Bytes(EventDoc("StreamStarted", EventDataDoc(<<"4", "5", "6">>, <<"7">>))),
      Bytes(EventDoc("StreamStarted", EventDataDoc(<<"4", "2", "9", "4", "9", "6", "7", "4", "1", "9">>, <<"7">>))) }

ConcRequests ==
    [method : {"POST"}, path : {"/webhook"}, body : ConcBodies]
    \cup [method : {"GET"}, path : {"/webhook"}, body : {NotJson("")}]

ConcCommandLines ==
    [port : {DefaultPort}, roomid_filter : {None, Some(<<"1", "2", "3">>), Some(<<"x", ",">>)}]

ConcInit == InitWith(ConcCommandLines)

ConcNext ==
    \/ Main
    \/ \E r \in Handlers :
         \/ \E req \in ConcRequests : Receive(r, req)
         \/ Route(r)
         \/ ReadBody(r)
         \/ Decode(r)
         \/ Dispatch(r)
         \/ Notify(r)

ConcSpec == ConcInit /\ [][ConcNext]_vars

(***************************************************************************)
(* Properties                                                              *)
(*                                                                         *)
(* They speak of a request as it is on the wire: its method, its path and  *)
(* the JSON text of its body, not of what the decoder made of it.          *)
(***************************************************************************)
\* handler r holds a request
Started(r) == handlers[r].pc # "idle"

Finished(r) == handlers[r].pc = "done"

IsWebhookPost(r) ==
    handlers[r].req.v.method = "POST" /\ handlers[r].req.v.path = "/webhook"

\* handler r holds a well-formed Event posted to /webhook
WellFormedEvent(r) ==
    Started(r) /\ IsWebhookPost(r) /\ handlers[r].req.v.body \in WellFormedBodies

WireEvent(r) == handlers[r].req.v.body.bytes.value.fields

WireEventType(r) == WireEvent(r)["EventType"].s

WireRoomId(r) == WireEvent(r)["EventData"].fields["RoomId"].tok

WireTitle(r) == WireEvent(r)["EventData"].fields["Title"].s

WellFormedStreamStart(r) == WellFormedEvent(r) /\ WireEventType(r) = "StreamStarted"

\* the one response of a finished handler is `response`
Responded(r, status, body) ==
    handlers[r].resp = <<[ok |-> TRUE, v |-> [status |-> status, body |-> body]]>>

\* the room identifier written as the decimal token tok is in the filter
Listed(vec, tok) == \E i \in 1..Len(vec) : UnsignedToString(vec[i]) = tok

\* the value of a decimal integer token modulo 2^32, computed digit by digit
\* in 32-bit wrapping arithmetic
RECURSIVE DecimalMod2p32(_, _)
DecimalMod2p32(acc, digits) ==
    IF digits = <<>> THEN acc
    ELSE DecimalMod2p32(MulAdd(acc, 10, ToDigit(Head(digits))).v, Tail(digits))

TokenMod2p32(tok) ==
    IF Head(tok) = "-" THEN WrappingNeg(DecimalMod2p32(Zero(U32Limbs), Tail(tok)))
    ELSE DecimalMod2p32(Zero(U32Limbs), tok)

\* the entries of --roomid-filter that are an unsigned 32-bit integer
ParsedEntries(str) ==
    LET entries == Split(str, ",") IN
    { U32FromStr(entries[i]).v : i \in { j \in 1..Len(entries) : U32FromStr(entries[j]).ok } }

Elements(vec) == { vec[i] : i \in 1..Len(vec) }

\* C1: a request whose method is not POST or whose path is not /webhook,
\* whatever its body, is answered 404 with an empty body; its body is never
\* read or decoded, the filter is not consulted and the collaborator is not
\* called.
C1_NotFound ==
    \A r \in Handlers :
        (Started(r) /\ ~IsWebhookPost(r)) =>
            /\ handlers[r].pc \in {"route", "done"}
            /\ handlers[r].body = None
            /\ handlers[r].event = None
            /\ ~handlers[r].filterChecked
            /\ handlers[r].shown = <<>>
            /\ Finished(r) => Responded(r, 404, "")

C1_Witness ==
    \E r \in Handlers :
        /\ Finished(r)
        /\ handlers[r].req.v.method = "POST"
        /\ handlers[r].req.v.path = "/"
        /\ handlers[r].req.v.body \in WellFormedBodies
        /\ WireEventType(r) = "StreamStarted"
        /\ ROOMID_FILTER = None
        /\ Responded(r, 404, "")

\* C2: for a well-formed stream-start event on POST /webhook, with a filter
\* configured, whose room_id (any i64) is not one of the filter's
\* identifiers, the collaborator is never called and the response is 200.
C2_FilteredOutNeverNotified ==
    \A r \in Handlers :
        (/\ WellFormedStreamStart(r)
         /\ ROOMID_FILTER.some
         /\ ~Listed(ROOMID_FILTER.v, WireRoomId(r))) =>
            /\ handlers[r].shown = <<>>
            /\ Finished(r) => Responded(r, 200, "")

\* C3: for a well-formed StreamStarted event on POST /webhook with no filter
\* configured, the collaborator is called exactly once, with a body that
\* contains the event's room_id and title; when the call succeeds the
\* response is 200 with an empty body.
C3_NoFilterNotifiesOnce ==
    \A r \in Handlers :
        (WellFormedStreamStart(r) /\ commandLine.roomid_filter = None) =>
            /\ Len(handlers[r].shown) <= 1
            /\ Finished(r) =>
                /\ Len(handlers[r].shown) = 1
                /\ Contains(handlers[r].shown[1].call.body, WireRoomId(r))
                /\ Contains(handlers[r].shown[1].call.body, WireTitle(r))
                /\ handlers[r].shown[1].result.ok => Responded(r, 200, "")

C3_Witness ==
    \E r \in Handlers :
        /\ WellFormedStreamStart(r)
        /\ commandLine.roomid_filter = None
        /\ Finished(r)
        /\ WireRoomId(r) = <<"-", "9", "2", "2", "3", "3", "7", "2", "0", "3", "6", "8", "5", "4", "7", "7", "5", "8", "0", "8">>
        /\ handlers[r].shown[1].result.ok
        /\ Responded(r, 200, "")

\* C4: a well-formed event on POST /webhook whose event_type is not
\* "StreamStarted" is answered 200 with an empty body and the collaborator
\* is not called, with or without a filter and whatever the room_id.
C4_OtherEventsIgnored ==
    \A r \in Handlers :
        (WellFormedEvent(r) /\ WireEventType(r) # "StreamStarted") =>
            /\ handlers[r].shown = <<>>
            /\ handlers[r].pc # "notify"
            /\ Finished(r) => Responded(r, 200, "")

C4_Witness ==
    \E r \in Handlers :
        /\ WellFormedEvent(r)
        /\ WireEventType(r) = "SessionStarted"
        /\ ROOMID_FILTER.some
        /\ Listed(ROOMID_FILTER.v, WireRoomId(r))
        /\ Finished(r)
        /\ Responded(r, 200, "")

\* C5: a POST /webhook request whose body cannot be read or does not decode
\* as an Event is answered 500 with a non-empty diagnostic text; the filter
\* is not consulted and the collaborator is not called.
C5_DecodeFailureIs500 ==
    \A r \in Handlers :
        (/\ Started(r)
         /\ IsWebhookPost(r)
         /\ handlers[r].req.v.body \in {Unreadable} \cup UndecodableBodies) =>
            /\ handlers[r].pc \in {"route", "read", "decode", "done"}
            /\ handlers[r].event = None
            /\ ~handlers[r].filterChecked
            /\ handlers[r].shown = <<>>
            /\ Finished(r) =>
                /\ Len(handlers[r].resp) = 1
                /\ handlers[r].resp[1].ok
                /\ handlers[r].resp[1].v.status = 500
                /\ handlers[r].resp[1].v.body # ""

C5_Witness ==
    \E r \in Handlers :
        /\ Finished(r)
        /\ IsWebhookPost(r)
        /\ handlers[r].req.v.body =
             Bytes(EventDoc("StreamStarted",
                            EventDataDoc(<<"9", "2", "2", "3", "3", "7", "2", "0", "3", "6", "8", "5", "4", "7", "7", "5", "8", "0", "8">>, <<"7">>)))
        /\ Finished(r)
        /\ handlers[r].resp[1].v.status = 500

\* C6: when the collaborator reports an error for a stream-start event that
\* passed the filter, the handler returns a response (not an error) that is
\* 500 with the collaborator's diagnostic text as body.
C6_NotifyErrorIs500 ==
    \A r \in Handlers :
        (handlers[r].shown # <<>> /\ ~handlers[r].shown[1].result.ok) =>
            /\ Finished(r)
            /\ Len(handlers[r].resp) = 1
            /\ handlers[r].resp[1].ok
            /\ handlers[r].resp[1].v.status = 500
            /\ handlers[r].resp[1].v.body = DebugFmt(handlers[r].shown[1].result.err)
            /\ handlers[r].resp[1].v.body # ""

C6_Witness ==
    \E r \in Handlers :
        /\ WellFormedStreamStart(r)
        /\ ROOMID_FILTER.some
        /\ Listed(ROOMID_FILTER.v, WireRoomId(r))
        /\ handlers[r].shown # <<>>
        /\ ~handlers[r].shown[1].result.ok
        /\ Responded(r, 500, "Dbus(Error)")

\* C7: when --roomid-filter is given, the filter main installs is exactly
\* the set of the comma-separated entries that parse as u32, the other
\* entries being dropped without stopping startup; and when at least one
\* entry parses, the collaborator is called only for the listed room
\* identifiers.
C7_FilterIsParsedEntries ==
    (mainPc = "serving" /\ commandLine.roomid_filter.some) =>
        /\ ROOMID_FILTER.some
        /\ Elements(ROOMID_FILTER.v) = ParsedEntries(commandLine.roomid_filter.v)
        /\ ParsedEntries(commandLine.roomid_filter.v) # {} =>
             \A r \in Handlers :
                 (WellFormedStreamStart(r) /\ handlers[r].shown # <<>>) =>
                     Listed(ROOMID_FILTER.v, WireRoomId(r))

\* the startup part of C7 alone: the installed filter is exactly the parsed
\* entries of the command line
C7_StartupPart ==
    (mainPc = "serving" /\ commandLine.roomid_filter.some) =>
        /\ ROOMID_FILTER.some
        /\ Elements(ROOMID_FILTER.v) = ParsedEntries(commandLine.roomid_filter.v)

\* C8: with a filter configured, the collaborator is called for a
\* well-formed stream-start event if and only if room_id modulo 2^32 is in
\* the filter.
C8_FilterComparesModulo2p32 ==
    \A r \in Handlers :
        (WellFormedStreamStart(r) /\ ROOMID_FILTER.some) =>
            /\ handlers[r].pc = "notify" =>
                 TokenMod2p32(WireRoomId(r)) \in Elements(ROOMID_FILTER.v)
            /\ Finished(r) =>
                 (handlers[r].shown # <<>>
                    <=> TokenMod2p32(WireRoomId(r)) \in Elements(ROOMID_FILTER.v))

C8_Witness ==
    \E r \in Handlers :
        /\ WellFormedStreamStart(r)
        /\ ROOMID_FILTER.some
        /\ WireRoomId(r) = <<"-", "4", "2", "9", "4", "9", "6", "7", "1", "7", "3">>
        /\ ~Listed(ROOMID_FILTER.v, WireRoomId(r))
        /\ Finished(r)
        /\ handlers[r].shown # <<>>

\* C9: when --roomid-filter is given and none of its entries parses, the
\* filter is installed as a configured empty list, not left absent: every
\* stream-start event is answered 200 and the collaborator is never called.
C9_EmptyFilterSuppressesAll ==
    (/\ mainPc = "serving"
     /\ commandLine.roomid_filter.some
     /\ ParsedEntries(commandLine.roomid_filter.v) = {}) =>
        /\ ROOMID_FILTER = Some(<<>>)
        /\ \A r \in Handlers :
             WellFormedStreamStart(r) =>
                /\ handlers[r].shown = <<>>
                /\ handlers[r].pc # "notify"
                /\ Finished(r) => Responded(r, 200, "")

C9_Witness ==
    \E r \in Handlers :
        /\ commandLine.roomid_filter = Some(<<>>)
        /\ ROOMID_FILTER = Some(<<>>)
        /\ WellFormedStreamStart(r)
        /\ handlers[r].filterChecked
        /\ Finished(r)
        /\ Responded(r, 200, "")

\* what a request gets when it is handled alone under `filter`, the
\* collaborator answering `result` if it is called
AloneCalls(req, filter) ==
    IF /\ req.method = "POST"
       /\ req.path = "/webhook"
       /\ req.body \in WellFormedBodies
       /\ req.body.bytes.value.fields["EventType"].s = "StreamStarted"
       /\ filter.some =>
            TokenMod2p32(req.body.bytes.value.fields["EventData"].fields["RoomId"].tok)
                \in Elements(filter.v)
    THEN 1 ELSE 0

AloneStatus(req, filter, results) ==
    IF req.method # "POST" \/ req.path # "/webhook" THEN 404
    ELSE IF req.body \notin WellFormedBodies THEN 500
    ELSE IF AloneCalls(req, filter) = 1 /\ ~results[1].ok THEN 500
    ELSE 200

\* C10: under any interleaving of the handlers, request handling never
\* changes the filter main installed, and each request gets exactly one
\* response and a number of collaborator calls that are those of the request
\* handled alone.
C10_Isolation ==
    /\ [][mainPc = "serving" => ROOMID_FILTER' = ROOMID_FILTER]_vars
    /\ [](\A r \in Handlers :
            /\ Len(handlers[r].resp) <= 1
            /\ Len(handlers[r].shown) <= 1
            /\ Started(r) => mainPc = "serving"
            /\ Finished(r) =>
                /\ Len(handlers[r].resp) = 1
                /\ Len(handlers[r].shown) = AloneCalls(handlers[r].req.v, ROOMID_FILTER)
                /\ handlers[r].resp[1].ok
                /\ handlers[r].resp[1].v.status =
                     AloneStatus(handlers[r].req.v, ROOMID_FILTER,
                                 [i \in 1..Len(handlers[r].shown) |->
                                     handlers[r].shown[i].result]))

C10_Witness ==
    \E r1, r2 \in Handlers :
        /\ r1 # r2
        /\ Finished(r1)
        /\ handlers[r1].shown # <<>>
        /\ handlers[r2].pc = "notify"
        /\ handlers[r1].req.v # handlers[r2].req.v

=============================================================================
